---- MODULE Spec2Model ----
(***************************************************************************)
(* cte_helper (src/docker/iowarp/cte_helper.cpp): a line-oriented command  *)
(* loop over the IOWarp CTE blob store.  One JSON object per input line,   *)
(* one JSON response per output line, a ready record first.                *)
(*                                                                         *)
(* Text is modelled as sequences of one-character strings, so that         *)
(* json_get, from_hex, to_hex and escape_json work on characters as the    *)
(* code does.  The CTE client library (wrp_cte) is not part of the         *)
(* repository: its calls are modelled from the capability interface of     *)
(* the specification (section 6), and every call may also raise.           *)
(***************************************************************************)
EXTENDS Integers, Sequences, FiniteSets, TLC

\* ------------------------------------------------------------------ bounds

\* Number of input lines the run reads before the input stream ends.
MaxLines == 3

\* Longest byte sequence handed to to_hex.
MaxBytes == 2

\* Longest field value handed to escape_json and read back by json_get.
MaxValueLen == 2

\* ------------------------------------------------------------- characters

Q == "\""
BS == "\\"
NL == "\n"
TAB == "\t"
NPOS == 0

Min(S) == CHOOSE x \in S : \A y \in S : x <= y

\* std::string::find(pat, from), positions counted from 1, NPOS when absent.
Find(s, pat, from) ==
    LET n == Len(pat)
        hits == { i \in from..(Len(s) - n + 1) : SubSeq(s, i, i + n - 1) = pat }
    IN IF hits = {} THEN NPOS ELSE Min(hits)

\* std::string::find_first_of(chars, from).
FindFirstOf(s, chars, from) ==
    LET hits == { i \in from..Len(s) : s[i] \in chars }
    IN IF hits = {} THEN NPOS ELSE Min(hits)

RECURSIVE SkipBlanks(_, _)
SkipBlanks(s, pos) ==
    IF pos <= Len(s) /\ s[pos] \in {" ", TAB} THEN SkipBlanks(s, pos + 1) ELSE pos

RECURSIVE TrimBack(_)
TrimBack(val) ==
    IF val # <<>> /\ val[Len(val)] \in {" ", NL}
    THEN TrimBack(SubSeq(val, 1, Len(val) - 1))
    ELSE val

\* json_get(json, key): the value of key, a quoted string up to the next
\* double quote, or a bare token up to , } ] or the end of the line.
json_get(json, key) ==
    LET search == <<Q>> \o key \o <<Q, ":">>
        found == Find(json, search, 1)
        pos == SkipBlanks(json, found + Len(search))
    IN IF found = NPOS THEN <<>>
       ELSE IF pos > Len(json) THEN <<>>
       ELSE IF json[pos] = Q
            THEN LET end == Find(json, <<Q>>, pos + 1)
                 IN IF end = NPOS THEN <<>> ELSE SubSeq(json, pos + 1, end - 1)
            ELSE LET e == FindFirstOf(json, {",", "}", "]"}, pos)
                     end == IF e = NPOS THEN Len(json) + 1 ELSE e
                 IN TrimBack(SubSeq(json, pos, end - 1))

\* ---------------------------------------------------------------- hex codec

Byte == 0..255
HexDigits == <<"0","1","2","3","4","5","6","7","8","9","a","b","c","d","e","f">>
UpperDigits == <<"A","B","C","D","E","F">>

\* One nibble of from_hex: 0-9, a-f, A-F; anything else leaves the nibble 0.
Nibble(c) ==
    IF \E i \in 1..16 : HexDigits[i] = c
    THEN (CHOOSE i \in 1..16 : HexDigits[i] = c) - 1
    ELSE IF \E i \in 1..6 : UpperDigits[i] = c
    THEN (CHOOSE i \in 1..6 : UpperDigits[i] = c) + 9
    ELSE 0

\* from_hex that gives up on text with an odd length or a character that is
\* not a hex digit, decoding it to nothing.
from_hex_strict(hex) ==
    IF Len(hex) % 2 = 1
       \/ \E i \in 1..Len(hex) :
             /\ \A j \in 1..16 : HexDigits[j] # hex[i]
             /\ \A j \in 1..6 : UpperDigits[j] # hex[i]
    THEN <<>>
    ELSE [ k \in 1..(Len(hex) \div 2) |->
             (Nibble(hex[2 * k - 1]) * 16) + Nibble(hex[2 * k]) ]

\* from_hex: pairs of characters while i + 1 < size; a trailing one is dropped.
from_hex(hex) ==
    [ k \in 1..(Len(hex) \div 2) |->
        ((Nibble(hex[2 * k - 1]) * 16) + Nibble(hex[2 * k])) % 256 ]

\* to_hex with the two digits of a byte in the wrong order.
to_hex_swapped(data, len) ==
    [ i \in 1..(2 * len) |->
        IF i % 2 = 1 THEN HexDigits[(data[(i + 1) \div 2] % 16) + 1]
        ELSE HexDigits[(data[i \div 2] \div 16) + 1] ]

\* to_hex writing the digits above 9 in upper case.
to_hex_upper(data, len) ==
    LET up == <<"0","1","2","3","4","5","6","7","8","9","A","B","C","D","E","F">>
    IN [ i \in 1..(2 * len) |->
           IF i % 2 = 1 THEN up[(data[(i + 1) \div 2] \div 16) + 1]
           ELSE up[(data[i \div 2] % 16) + 1] ]

RECURSIVE to_hex(_, _)
to_hex(data, len) ==
    IF len = 0 THEN <<>>
    ELSE to_hex(data, len - 1)
         \o << HexDigits[(data[len] \div 16) + 1], HexDigits[(data[len] % 16) + 1] >>

RECURSIVE escape_json(_)
escape_json(s) ==
    IF s = <<>> THEN <<>>
    ELSE LET c == Head(s)
             e == IF c = Q THEN <<BS, Q>>
                  ELSE IF c = BS THEN <<BS, BS>>
                  ELSE IF c = NL THEN <<BS, "n">>
                  ELSE IF c = TAB THEN <<BS, "t">>
                  ELSE <<c>>
         IN e \o escape_json(Tail(s))

\* ------------------------------------------------------------ input lines

kCmd == <<"c","m","d">>
kTag == <<"t","a","g">>
kBlob == <<"b","l","o","b">>
kData == <<"d","a","t","a">>
kPattern == <<"p","a","t","t","e","r","n">>

cPut == <<"p","u","t">>
cGet == <<"g","e","t">>
cGetSize == <<"g","e","t","_","s","i","z","e">>
cListBlobs == <<"l","i","s","t","_","b","l","o","b","s">>
cTagQuery == <<"t","a","g","_","q","u","e","r","y">>
cDelBlob == <<"d","e","l","_","b","l","o","b">>
cDelTag == <<"d","e","l","_","t","a","g">>
cPing == <<"p","i","n","g">>
cQuit == <<"q","u","i","t">>
cExit == <<"e","x","i","t">>
cBogus == <<"b","o","g","u","s">>

\* "key":"value"
Str(k, v) == <<Q>> \o k \o <<Q, ":", Q>> \o v \o <<Q>>

RECURSIVE Join(_)
Join(fs) ==
    IF fs = <<>> THEN <<>>
    ELSE IF Len(fs) = 1 THEN fs[1]
    ELSE fs[1] \o <<",">> \o Join(Tail(fs))

\* {field,field,...}
Obj(fs) == <<"{">> \o Join(fs) \o <<"}">>

T1 == <<"t">>
T2 == <<"u">>
B1 == <<"b">>
MatchAll == <<".", "*">>

\* The lines the input stream may carry: every command with its fields
\* present, with required fields absent or empty, a command that is not in
\* the enumeration, a line without cmd, a blank line and a comment.
Lines ==
    { <<>>,
      <<"#", "x">>,
      Obj(<<Str(kCmd, cPut), Str(kTag, T1), Str(kBlob, B1), Str(kData, <<"4","a">>)>>),
      Obj(<<Str(kCmd, cPut), Str(kTag, T1), Str(kBlob, B1), Str(kData, <<"0","F","a">>)>>),
      Obj(<<Str(kCmd, cPut), Str(kTag, T1), Str(kBlob, B1), Str(kData, <<>>)>>),
      Obj(<<Str(kCmd, cPut), Str(kTag, T2), Str(kBlob, B1), Str(kData, <<"g","1","f","F">>)>>),
      Obj(<<Str(kCmd, cPut), Str(kBlob, B1), Str(kData, <<"4","a">>)>>),
      Obj(<<Str(kCmd, cPut), Str(kTag, T1), Str(kBlob, B1)>>),
      Obj(<<Str(kCmd, cGet), Str(kTag, T1), Str(kBlob, B1)>>),
      Obj(<<Str(kCmd, cGet), Str(kTag, T2), Str(kBlob, B1)>>),
      Obj(<<Str(kCmd, cGet), Str(kTag, T1), Str(kBlob, <<>>)>>),
      Obj(<<Str(kCmd, cGetSize), Str(kTag, T1), Str(kBlob, B1)>>),
      Obj(<<Str(kCmd, cGetSize)>>),
      Obj(<<Str(kCmd, cListBlobs), Str(kTag, T1)>>),
      Obj(<<Str(kCmd, cListBlobs)>>),
      Obj(<<Str(kCmd, cTagQuery)>>),
      Obj(<<Str(kCmd, cTagQuery), Str(kPattern, T1)>>),
      Obj(<<Str(kCmd, cDelBlob), Str(kTag, T1), Str(kBlob, B1)>>),
      Obj(<<Str(kCmd, cDelBlob), Str(kTag, T1)>>),
      Obj(<<Str(kCmd, cDelTag), Str(kTag, T1)>>),
      Obj(<<Str(kCmd, cDelTag)>>),
      Obj(<<Str(kCmd, cPing), Str(kTag, T1)>>),
      Obj(<<Str(kCmd, cQuit)>>),
      Obj(<<Str(kCmd, cExit)>>),
      Obj(<<Str(kCmd, cBogus)>>),
      Obj(<<Str(kTag, T1)>>) }

\* ----------------------------------------------------------- storage facade
\* The blob store is a function from tag names to functions from blob names
\* to byte sequences.  These operators give the result of a call that
\* returns; a call that raises leaves the store as it was.

EmptyFn == [x \in {} |-> <<>>]

\* wrp_cte::core::Tag tag(name): opens the tag, creating it when absent.
Tag(st, t) == IF t \in DOMAIN st THEN st ELSE (t :> EmptyFn) @@ st

PutBlob(st, t, b, bytes) == [st EXCEPT ![t] = (b :> bytes) @@ st[t]]

GetBlobSize(st, t, b) == IF b \in DOMAIN st[t] THEN Len(st[t][b]) ELSE 0

GetBlob(st, t, b, size) == SubSeq(st[t][b], 1, size)

RECURSIVE SeqOf(_)
SeqOf(S) ==
    IF S = {} THEN <<>>
    ELSE LET x == CHOOSE y \in S : TRUE IN <<x>> \o SeqOf(S \ {x})

GetContainedBlobs(st, t) == SeqOf(DOMAIN st[t])

TagQuery(st, pattern) ==
    SeqOf({ t \in DOMAIN st : pattern = MatchAll \/ pattern = t })

DelBlob(st, t, b) ==
    [st EXCEPT ![t] = [x \in (DOMAIN st[t]) \ {b} |-> st[t][x]]]

DelTag(st, t) == [x \in (DOMAIN st) \ {t} |-> st[x]]

\* The storage targets ListTargets reports.
Targets == << <<"r","a","m">> >>

\* What a raised std::exception describes itself as (e.what()).
What == <<"n", "o", " ", Q, "x", Q>>

\* How a facade call made while handling one line may end: at = 0, every
\* call returns; at = k, the k-th call raises a std::exception ("std") or
\* a value of another type ("other").
Faults ==
    { [at |-> 0, kind |-> "none"] }
    \cup { [at |-> k, kind |-> x] : k \in 1..3, x \in {"std", "other"} }

\* --------------------------------------------------------- response encoder
\* An output line: status, then the fields it carries.  text is the literal
\* part of a message and arg its variable part, escaped.

OutLine(status, text, arg, fields, size, data, names) ==
    [status |-> status, text |-> text, arg |-> arg, fields |-> fields,
     size |-> size, data |-> data, names |-> names, req |-> 0]

EscapeAll(ns) == [i \in 1..Len(ns) |-> escape_json(ns[i])]

\* respond_ok(extra): {"status":"ok"} or {"status":"ok",extra}
respond_ok(fields, size, data, names) ==
    OutLine("ok", "", <<>>, fields, size, data, names)

\* respond_error(msg): {"status":"error","message":"<escaped msg>"}
respond_error(text, arg) ==
    OutLine("error", text, escape_json(arg), {"message"}, -1, <<>>, <<>>)

\* A line already written, reduced to its status and the request it answers.
Brief(l) == [OutLine(l.status, "", <<>>, {}, -1, <<>>, <<>>) EXCEPT !.req = l.req]

\* respond(json): the line is appended to the output and flushed.  The
\* output keeps its last line in full and every earlier line in brief.
respond(o, json) == Append([i \in 1..Len(o) |-> Brief(o[i])], json)

\* ------------------------------------------------------- command handlers
\* What handling one line does, up to the end of the try block: the line it
\* responds with, the store afterwards, the facade calls it made, whether
\* it leaves the loop, and the kind of value raised ("none" when none).

Eff(resp, st, cs, brk, thrown) ==
    [resp |-> resp, store |-> st, calls |-> cs, brk |-> brk, thrown |-> thrown]

NoLine == OutLine("", "", <<>>, {}, -1, <<>>, <<>>)

Raise(st, cs, kind) == Eff(NoLine, st, cs, FALSE, kind)

\* The test of put with && in place of ||.
put_invalid_both(tag_name, blob_name) == tag_name = <<>> /\ blob_name = <<>>

\* if (tag_name.empty() || blob_name.empty())
put_invalid(tag_name, blob_name) == tag_name = <<>> \/ blob_name = <<>>

get_invalid(tag_name, blob_name) == tag_name = <<>> \/ blob_name = <<>>

\* if (size == 0), written as a test that an unsigned size never passes.
blob_negative(size) == size < 0

\* if (size == 0)
blob_empty(size) == size = 0

put(ln, st, f) ==
    LET tag_name == json_get(ln, kTag)
        blob_name == json_get(ln, kBlob)
        hex_data == json_get(ln, kData)
        data == from_hex(hex_data)
        st1 == Tag(st, tag_name)
    IN IF put_invalid(tag_name, blob_name)
       THEN Eff(respond_error("put requires tag and blob", <<>>), st, <<>>, FALSE, "none")
       ELSE IF f.at = 1 THEN Raise(st, <<"Tag">>, f.kind)
       ELSE IF f.at = 2 THEN Raise(st1, <<"Tag", "PutBlob">>, f.kind)
       ELSE Eff(respond_ok({"size"}, Len(data), <<>>, <<>>),
                PutBlob(st1, tag_name, blob_name, data),
                <<"Tag", "PutBlob">>, FALSE, "none")

\* get that takes the blob out of the store once it has been read.
get_consuming(ln, st, f) ==
    LET tag_name == json_get(ln, kTag)
        blob_name == json_get(ln, kBlob)
        st1 == Tag(st, tag_name)
        size == GetBlobSize(st1, tag_name, blob_name)
        buf == GetBlob(st1, tag_name, blob_name, size)
    IN IF get_invalid(tag_name, blob_name)
       THEN Eff(respond_error("get requires tag and blob", <<>>), st, <<>>, FALSE, "none")
       ELSE IF f.at = 1 THEN Raise(st, <<"Tag">>, f.kind)
       ELSE IF f.at = 2 THEN Raise(st1, <<"Tag", "GetBlobSize">>, f.kind)
       ELSE IF blob_empty(size)
       THEN Eff(respond_error("blob not found or empty", <<>>), st1,
                <<"Tag", "GetBlobSize">>, FALSE, "none")
       ELSE IF f.at = 3 THEN Raise(st1, <<"Tag", "GetBlobSize", "GetBlob">>, f.kind)
       ELSE Eff(respond_ok({"size", "data"}, size, to_hex(buf, size), <<>>),
                DelBlob(st1, tag_name, blob_name),
                <<"Tag", "GetBlobSize", "GetBlob">>, FALSE, "none")

get(ln, st, f) ==
    LET tag_name == json_get(ln, kTag)
        blob_name == json_get(ln, kBlob)
        st1 == Tag(st, tag_name)
        size == GetBlobSize(st1, tag_name, blob_name)
        buf == GetBlob(st1, tag_name, blob_name, size)
    IN IF get_invalid(tag_name, blob_name)
       THEN Eff(respond_error("get requires tag and blob", <<>>), st, <<>>, FALSE, "none")
       ELSE IF f.at = 1 THEN Raise(st, <<"Tag">>, f.kind)
       ELSE IF f.at = 2 THEN Raise(st1, <<"Tag", "GetBlobSize">>, f.kind)
       ELSE IF blob_empty(size)
       THEN Eff(respond_error("blob not found or empty", <<>>), st1,
                <<"Tag", "GetBlobSize">>, FALSE, "none")
       ELSE IF f.at = 3 THEN Raise(st1, <<"Tag", "GetBlobSize", "GetBlob">>, f.kind)
       ELSE Eff(respond_ok({"size", "data"}, size, to_hex(buf, size), <<>>), st1,
                <<"Tag", "GetBlobSize", "GetBlob">>, FALSE, "none")

get_size(ln, st, f) ==
    LET tag_name == json_get(ln, kTag)
        blob_name == json_get(ln, kBlob)
        st1 == Tag(st, tag_name)
    IN IF f.at = 1 THEN Raise(st, <<"Tag">>, f.kind)
       ELSE IF f.at = 2 THEN Raise(st1, <<"Tag", "GetBlobSize">>, f.kind)
       ELSE Eff(respond_ok({"size"}, GetBlobSize(st1, tag_name, blob_name), <<>>, <<>>),
                st1, <<"Tag", "GetBlobSize">>, FALSE, "none")

list_blobs(ln, st, f) ==
    LET tag_name == json_get(ln, kTag)
        st1 == Tag(st, tag_name)
    IN IF f.at = 1 THEN Raise(st, <<"Tag">>, f.kind)
       ELSE IF f.at = 2 THEN Raise(st1, <<"Tag", "GetContainedBlobs">>, f.kind)
       ELSE Eff(respond_ok({"blobs"}, -1, <<>>,
                           EscapeAll(GetContainedBlobs(st1, tag_name))),
                st1, <<"Tag", "GetContainedBlobs">>, FALSE, "none")

tag_query(ln, st, f) ==
    LET given == json_get(ln, kPattern)
        pattern == IF given = <<>> THEN MatchAll ELSE given
    IN IF f.at = 1 THEN Raise(st, <<"TagQuery">>, f.kind)
       ELSE Eff(respond_ok({"tags"}, -1, <<>>, EscapeAll(TagQuery(st, pattern))),
                st, <<"TagQuery">>, FALSE, "none")

\* del_blob that answers ok without asking the client to delete.
del_blob_unlinked(ln, st, f) ==
    LET tag_name == json_get(ln, kTag)
        st1 == Tag(st, tag_name)
    IN IF f.at = 1 THEN Raise(st, <<"Tag">>, f.kind)
       ELSE Eff(respond_ok({}, -1, <<>>, <<>>), st1, <<"Tag">>, FALSE, "none")

del_blob(ln, st, f) ==
    LET tag_name == json_get(ln, kTag)
        blob_name == json_get(ln, kBlob)
        st1 == Tag(st, tag_name)
    IN IF f.at = 1 THEN Raise(st, <<"Tag">>, f.kind)
       ELSE IF f.at = 2 THEN Raise(st1, <<"Tag", "DelBlob">>, f.kind)
       ELSE Eff(respond_ok({}, -1, <<>>, <<>>), DelBlob(st1, tag_name, blob_name),
                <<"Tag", "DelBlob">>, FALSE, "none")

del_tag(ln, st, f) ==
    LET tag_name == json_get(ln, kTag)
    IN IF f.at = 1 THEN Raise(st, <<"DelTag">>, f.kind)
       ELSE Eff(respond_ok({}, -1, <<>>, <<>>), DelTag(st, tag_name),
                <<"DelTag">>, FALSE, "none")

\* ping that asks the store for its tags before answering.
ping_probe(st) == Eff(respond_ok({}, -1, <<>>, <<>>), st, <<"TagQuery">>, FALSE, "none")

ping(st) == Eff(respond_ok({}, -1, <<>>, <<>>), st, <<>>, FALSE, "none")

\* quit without the break.
quit_no_break(st) == Eff(respond_ok({}, -1, <<>>, <<>>), st, <<>>, FALSE, "none")

quit(st) == Eff(respond_ok({}, -1, <<>>, <<>>), st, <<>>, TRUE, "none")

\* An unknown command that ends the loop.
unknown_fatal(c, st) == Eff(respond_error("unknown command: ", c), st, <<>>, TRUE, "none")

unknown(c, st) == Eff(respond_error("unknown command: ", c), st, <<>>, FALSE, "none")

\* The loop without its catch (...) clause.
loop_catches_std_only(kind) == kind = "std"

\* catch (const std::exception &e) ... catch (...) around each dispatch.
loop_catches(kind) == kind \in {"std", "other"}

\* catch (const std::exception &e) around WRP_CTE_CLIENT_INIT.
init_catches(kind) == kind = "std"

\* The line the catch clauses of the loop respond with.
caught(kind) ==
    IF kind = "std" THEN respond_error("exception: ", What)
    ELSE respond_error("unknown exception", <<>>)

\* ------------------------------------------------------------------- main

VARIABLES
    pc,         \* where main is: "init", "targets", "getline", "dispatch",
                \* "exit" (returned) or "aborted" (std::terminate)
    exit_code,  \* the value main returned, -1 while it runs
    line,       \* std::string line
    cmd,        \* std::string cmd = json_get(line, "cmd")
    out,        \* the lines written to stdout, in order; req of a line is
                \* the number of the request it was written for (0: none)
    store,      \* the blob store behind the facade
    nread,      \* lines taken from stdin so far
    nreq,       \* of these, the lines that were neither blank nor comments
    calls,      \* facade calls made for the current line
    raised,     \* kind of value raised while handling the current line
    answered,   \* the last step handled `line` and wrote its response
    init_result, \* how WRP_CTE_CLIENT_INIT ended ("" before the call)
    failed,     \* a facade call raised while an earlier line was handled
    putlog,     \* <<tag, blob>> -> bytes of a put that returned ok, with no
                \* put, del_blob or del_tag on them since
    dellog,     \* <<tag, blob>> -> bytes it held, of a del_blob that returned
                \* ok, with no put on them since
    fn,         \* the text function applied last ("" when none was)
    sample,     \* the bytes or the field value it started from
    enc,        \* the text made of sample: its hex form, or a request line
    dec         \* what was read back from enc

vars == <<pc, exit_code, line, cmd, out, store, nread, nreq, calls, raised,
          answered, init_result, failed, putlog, dellog, fn, sample, enc, dec>>

ghosts == <<putlog, dellog>>

\* The variables main does not touch.
codec == <<fn, sample, enc, dec>>

Init ==
    /\ pc = "init"
    /\ exit_code = -1
    /\ line = <<>>
    /\ cmd = <<>>
    /\ out = <<>>
    /\ store = EmptyFn
    /\ nread = 0
    /\ nreq = 0
    /\ calls = <<>>
    /\ raised = "none"
    /\ answered = FALSE
    /\ init_result = ""
    /\ failed = FALSE
    /\ putlog = EmptyFn
    /\ dellog = EmptyFn
    /\ fn = ""
    /\ sample = <<>>
    /\ enc = <<>>
    /\ dec = <<>>

\* WRP_CTE_CLIENT_INIT() returns true or false, or raises.
ClientInit ==
    /\ pc = "init"
    /\ \E r \in {"true", "false", "std", "other"} :
         /\ init_result' = r
         /\ IF r = "true"
            THEN /\ pc' = "targets"
                 /\ UNCHANGED <<out, exit_code>>
            ELSE IF r = "false"
            THEN /\ out' = respond(out, respond_error("WRP_CTE_CLIENT_INIT failed", <<>>))
                 /\ pc' = "exit"
                 /\ exit_code' = 1
            ELSE IF init_catches(r)
            THEN /\ out' = respond(out, respond_error("Init exception: ", What))
                 /\ pc' = "exit"
                 /\ exit_code' = 1
            ELSE /\ pc' = "aborted"
                 /\ exit_code' = 134
                 /\ UNCHANGED out
    /\ UNCHANGED <<line, cmd, store, nread, nreq, calls, raised, answered, failed, ghosts, codec>>

\* {"status":"ready",init_info}: the targets and their count, or
\* targets_error when ListTargets raised.
ready_record(r) ==
    IF r = "ok"
    THEN OutLine("ready", "", <<>>, {"targets", "target_count"},
                 Len(Targets), <<>>, EscapeAll(Targets))
    ELSE IF r = "std"
    THEN OutLine("ready", "", escape_json(What), {"targets_error"}, -1, <<>>, <<>>)
    ELSE OutLine("ready", "", <<"u","n","k","n","o","w","n">>,
                 {"targets_error"}, -1, <<>>, <<>>)

\* Ready with the ready record written inside the try block, so that a
\* ListTargets that raises writes none.
ReadyInsideTry ==
    /\ pc = "targets"
    /\ \E r \in {"ok", "std", "other"} :
         out' = IF r = "ok" THEN respond(out, ready_record(r)) ELSE out
    /\ pc' = "getline"
    /\ UNCHANGED <<exit_code, line, cmd, store, nread, nreq, calls, raised, answered,
                   init_result, failed, ghosts, codec>>

\* Ready with a ListTargets failure treated like an init failure: an error
\* line and exit code 1.
ReadyFatal ==
    /\ pc = "targets"
    /\ \E r \in {"ok", "std", "other"} :
         IF r = "ok"
         THEN /\ out' = respond(out, ready_record(r))
              /\ pc' = "getline"
              /\ UNCHANGED exit_code
         ELSE /\ out' = respond(out, respond_error("ListTargets failed", <<>>))
              /\ pc' = "exit"
              /\ exit_code' = 1
    /\ UNCHANGED <<line, cmd, store, nread, nreq, calls, raised, answered,
                   init_result, failed, ghosts, codec>>

\* ListTargets, then the ready record.
Ready ==
    /\ pc = "targets"
    /\ \E r \in {"ok", "std", "other"} : out' = respond(out, ready_record(r))
    /\ pc' = "getline"
    /\ UNCHANGED <<exit_code, line, cmd, store, nread, nreq, calls, raised, answered,
                   init_result, failed, ghosts, codec>>

\* The skip test without its comment half.
skipped_blank_only(ln) == ln = <<>>

\* if (line.empty() || line[0] == '#') continue;
skipped(ln) == ln = <<>> \/ ln[1] = "#"

\* GetLine that answers the end of input with a last ok line.
GetLine_farewell ==
    /\ pc = "getline"
    /\ \/ /\ nread < MaxLines
          /\ \E ln \in Lines :
               /\ line' = ln
               /\ cmd' = IF skipped(ln) THEN <<>> ELSE json_get(ln, kCmd)
               /\ pc' = IF skipped(ln) THEN "getline" ELSE "dispatch"
               /\ nreq' = IF skipped(ln) THEN nreq ELSE nreq + 1
          /\ nread' = nread + 1
          /\ UNCHANGED <<exit_code, out>>
       \/ /\ line' = <<>>
          /\ cmd' = <<>>
          /\ pc' = "exit"
          /\ exit_code' = 0
          /\ out' = respond(out, respond_ok({}, -1, <<>>, <<>>))
          /\ UNCHANGED <<nread, nreq>>
    /\ calls' = <<>>
    /\ raised' = "none"
    /\ answered' = FALSE
    /\ failed' = (failed \/ raised # "none")
    /\ UNCHANGED <<store, init_result, ghosts, codec>>

\* while (std::getline(std::cin, line)): the next line, or the end of input;
\* a line that is not skipped has its cmd extracted.
GetLine ==
    /\ pc = "getline"
    /\ \/ /\ nread < MaxLines
          /\ \E ln \in Lines :
               /\ line' = ln
               /\ cmd' = IF skipped(ln) THEN <<>> ELSE json_get(ln, kCmd)
               /\ pc' = IF skipped(ln) THEN "getline" ELSE "dispatch"
               /\ nreq' = IF skipped(ln) THEN nreq ELSE nreq + 1
          /\ nread' = nread + 1
          /\ UNCHANGED exit_code
       \/ /\ line' = <<>>
          /\ cmd' = <<>>
          /\ pc' = "exit"
          /\ exit_code' = 0
          /\ UNCHANGED <<nread, nreq>>
    /\ calls' = <<>>
    /\ raised' = "none"
    /\ answered' = FALSE
    /\ failed' = (failed \/ raised # "none")
    /\ UNCHANGED <<out, store, init_result, ghosts, codec>>

For(json, n) == [json EXCEPT !.req = n]

\* Finish with a catch (...) clause that writes nothing.
Finish_swallow(e) ==
    /\ store' = e.store
    /\ calls' = e.calls
    /\ raised' = e.thrown
    /\ answered' = TRUE
    /\ out' = IF e.thrown = "none" THEN respond(out, For(e.resp, nreq))
              ELSE IF e.thrown = "std" THEN respond(out, For(caught(e.thrown), nreq))
              ELSE out
    /\ pc' = IF e.thrown = "none" /\ e.brk THEN "exit" ELSE "getline"
    /\ exit_code' = IF e.thrown = "none" /\ e.brk THEN 0 ELSE exit_code
    /\ UNCHANGED <<line, cmd, nread, nreq, init_result, failed, codec>>

\* The try block and its catch clauses, for the effect e of one handler.
Finish(e) ==
    /\ store' = e.store
    /\ calls' = e.calls
    /\ raised' = e.thrown
    /\ IF e.thrown = "none"
       THEN /\ out' = respond(out, For(e.resp, nreq))
            /\ pc' = IF e.brk THEN "exit" ELSE "getline"
            /\ exit_code' = IF e.brk THEN 0 ELSE exit_code
            /\ answered' = TRUE
       ELSE IF loop_catches(e.thrown)
       THEN /\ out' = respond(out, For(caught(e.thrown), nreq))
            /\ pc' = "getline"
            /\ answered' = TRUE
            /\ UNCHANGED exit_code
       ELSE /\ pc' = "aborted"
            /\ exit_code' = 134
            /\ answered' = FALSE
            /\ UNCHANGED out
    /\ UNCHANGED <<line, cmd, nread, nreq, init_result, failed, codec>>

IsOk(e) == e.thrown = "none" /\ e.resp.status = "ok"

\* The bytes the store holds for a tag and blob, none when there is no such blob.
Stored(st, t, b) ==
    IF t \in DOMAIN st /\ b \in DOMAIN st[t] THEN st[t][b] ELSE <<>>

Without(log, ps) == [p \in (DOMAIN log) \ ps |-> log[p]]

DoPut ==
    /\ pc = "dispatch" /\ cmd = cPut
    /\ \E f \in Faults :
         LET e == put(line, store, f)
             p == <<json_get(line, kTag), json_get(line, kBlob)>>
         IN /\ Finish(e)
            /\ putlog' = IF put_invalid(p[1], p[2]) THEN putlog
                         ELSE IF IsOk(e)
                         THEN (p :> from_hex(json_get(line, kData))) @@ putlog
                         ELSE Without(putlog, {p})
            /\ dellog' = IF put_invalid(p[1], p[2]) THEN dellog ELSE Without(dellog, {p})

DoGet ==
    /\ pc = "dispatch" /\ cmd = cGet
    /\ \E f \in Faults : Finish(get(line, store, f))
    /\ UNCHANGED ghosts

DoGetSize ==
    /\ pc = "dispatch" /\ cmd = cGetSize
    /\ \E f \in Faults : Finish(get_size(line, store, f))
    /\ UNCHANGED ghosts

DoListBlobs ==
    /\ pc = "dispatch" /\ cmd = cListBlobs
    /\ \E f \in Faults : Finish(list_blobs(line, store, f))
    /\ UNCHANGED ghosts

DoTagQuery ==
    /\ pc = "dispatch" /\ cmd = cTagQuery
    /\ \E f \in Faults : Finish(tag_query(line, store, f))
    /\ UNCHANGED ghosts

DoDelBlob ==
    /\ pc = "dispatch" /\ cmd = cDelBlob
    /\ \E f \in Faults :
         LET e == del_blob(line, store, f)
             p == <<json_get(line, kTag), json_get(line, kBlob)>>
         IN /\ Finish(e)
            /\ putlog' = Without(putlog, {p})
            /\ dellog' = IF IsOk(e) THEN (p :> Stored(store, p[1], p[2])) @@ dellog
                         ELSE dellog

DoDelTag ==
    /\ pc = "dispatch" /\ cmd = cDelTag
    /\ \E f \in Faults :
         LET e == del_tag(line, store, f)
             t == json_get(line, kTag)
         IN /\ Finish(e)
            /\ putlog' = Without(putlog, { p \in DOMAIN putlog : p[1] = t })
    /\ UNCHANGED dellog

DoPing ==
    /\ pc = "dispatch" /\ cmd = cPing
    /\ Finish(ping(store))
    /\ UNCHANGED ghosts

DoQuit ==
    /\ pc = "dispatch" /\ (cmd = cQuit \/ cmd = cExit)
    /\ Finish(quit(store))
    /\ UNCHANGED ghosts

Commands ==
    {cPut, cGet, cGetSize, cListBlobs, cTagQuery, cDelBlob, cDelTag, cPing, cQuit, cExit}

DoUnknown ==
    /\ pc = "dispatch" /\ cmd \notin Commands
    /\ Finish(unknown(cmd, store))
    /\ UNCHANGED ghosts

Next ==
    \/ ClientInit
    \/ Ready
    \/ GetLine
    \/ DoPut
    \/ DoGet
    \/ DoGetSize
    \/ DoListBlobs
    \/ DoTagQuery
    \/ DoDelBlob
    \/ DoDelTag
    \/ DoPing
    \/ DoQuit
    \/ DoUnknown

Spec == Init /\ [][Next]_vars

\* A step of main: control moves on or another line is consumed.  Every
\* step of Next is one, and one is possible until main has returned or
\* aborted.
MainStep ==
    /\ pc \notin {"exit", "aborted"}
    /\ pc' \in {"targets", "getline", "dispatch", "exit", "aborted"}
    /\ nread' \in {nread, nread + 1}
    /\ <<pc', nread'>> # <<pc, nread>>

\* The process runs: while main has a step to take, it takes one.
FairSpec == Spec /\ WF_<<pc, nread>>(MainStep)

\* ------------------------------------------------------- the text functions
\* to_hex, from_hex and json_get applied on their own, to inputs that are
\* not limited to what the request lines above carry.

\* Bytes for the positions after the first: the extremes, both nibbles
\* alone, and values whose digits mix 0-9 with a-f.
LaterBytes == {0, 10, 74, 160, 255}

RECURSIVE SeqsOver(_, _)
SeqsOver(S, n) ==
    IF n = 0 THEN { <<>> }
    ELSE LET shorter == SeqsOver(S, n - 1)
         IN shorter \cup { Append(s, x) : s \in { t \in shorter : Len(t) = n - 1 }, x \in S }

\* Every byte alone, and every byte followed by up to MaxBytes - 1 later bytes.
ByteSeqs ==
    { <<>> } \cup { <<b>> \o rest : b \in Byte, rest \in SeqsOver(LaterBytes, MaxBytes - 1) }

\* Field values over a plain character, the double quote and the backslash.
Values == SeqsOver({"a", Q, BS}, MaxValueLen)

Idle == pc = "init" /\ fn = ""

\* to_hex(data, len) of a byte sequence.
Encode ==
    /\ Idle
    /\ \E b \in ByteSeqs :
         /\ sample' = b
         /\ enc' = to_hex(b, Len(b))
    /\ fn' = "to_hex"
    /\ dec' = <<>>
    /\ UNCHANGED <<pc, exit_code, line, cmd, out, store, nread, nreq, calls, raised,
                   answered, init_result, failed, ghosts>>

\* from_hex(hex) of the text to_hex made.
Decode ==
    /\ fn = "to_hex"
    /\ dec' = from_hex(enc)
    /\ fn' = "from_hex"
    /\ UNCHANGED <<sample, enc>>
    /\ UNCHANGED <<pc, exit_code, line, cmd, out, store, nread, nreq, calls, raised,
                   answered, init_result, failed, ghosts>>

\* A get request whose tag is a value written by escape_json, as a
\* JSON encoder writes it.
Escape ==
    /\ Idle
    /\ \E v \in Values :
         /\ sample' = v
         /\ enc' = Obj(<<Str(kCmd, cGet), Str(kTag, escape_json(v)), Str(kBlob, B1)>>)
    /\ fn' = "escape_json"
    /\ dec' = <<>>
    /\ UNCHANGED <<pc, exit_code, line, cmd, out, store, nread, nreq, calls, raised,
                   answered, init_result, failed, ghosts>>

\* json_get(line, "tag") of that request.
Extract ==
    /\ fn = "escape_json"
    /\ dec' = json_get(enc, kTag)
    /\ fn' = "json_get"
    /\ UNCHANGED <<sample, enc>>
    /\ UNCHANGED <<pc, exit_code, line, cmd, out, store, nread, nreq, calls, raised,
                   answered, init_result, failed, ghosts>>

CodecNext ==
    \/ Encode
    \/ Decode
    \/ Escape
    \/ Extract

CodecSpec == Init /\ [][CodecNext]_vars

\* ------------------------------------------------------------- properties

Last == out[Len(out)]
req_tag == json_get(line, kTag)
req_blob == json_get(line, kBlob)
req_pair == <<req_tag, req_blob>>

\* Lowercase hexadecimal text of a byte sequence, two digits per byte, the
\* high digit first.
HexOf(bytes) ==
    [ i \in 1..(2 * Len(bytes)) |->
        IF i % 2 = 1 THEN HexDigits[(bytes[(i + 1) \div 2] \div 16) + 1]
        ELSE HexDigits[(bytes[i \div 2] % 16) + 1] ]

\* C1: once initialization has succeeded, the output holds the ready record
\* and exactly one response for each line read that is neither blank nor a
\* comment, the N-th response written for the N-th such line; while a line
\* is being handled only its own response is outstanding, and a new line is
\* read only when every earlier one has its response.
C1_OneResponsePerRequestInOrder ==
    (init_result = "true" /\ pc # "targets") =>
        /\ Len(out) = 1 + (IF pc = "dispatch" THEN nreq - 1 ELSE nreq)
        /\ \A i \in 2..Len(out) :
              out[i].req = i - 1 /\ out[i].status \in {"ok", "error"}
        /\ answered => Last.req = nreq

C1_Witness ==
    /\ pc = "getline" /\ answered /\ failed
    /\ nread = 3 /\ nreq = 2
    /\ out[2].status = "error" /\ Last.status = "ok"

\* The fields the command table requires of each command.
Required(c) ==
    IF c = cPut THEN <<kTag, kBlob, kData>>
    ELSE IF c \in {cGet, cGetSize, cDelBlob} THEN <<kTag, kBlob>>
    ELSE IF c \in {cListBlobs, cDelTag} THEN <<kTag>>
    ELSE <<>>

\* C2: a command that lacks one of its required fields (absent or empty) is
\* answered with an error and makes no facade call.
C2_MissingFieldIsRejected ==
    (answered /\ \E i \in 1..Len(Required(cmd)) : json_get(line, Required(cmd)[i]) = <<>>)
        => (Last.status = "error" /\ calls = <<>>)

\* C3: a facade call that raises while a line is handled, a std::exception
\* or any other value, is answered with exactly one error response that
\* carries the description, and the loop goes on to read the next line; the
\* process is never ended by a failed command.
C3_BackendFailureIsAnswered ==
    /\ raised # "none" =>
          /\ pc = "getline" /\ answered /\ exit_code = -1
          /\ Len(out) = nreq + 1
          /\ Last.status = "error" /\ Last.req = nreq
          /\ (raised = "std" =>
                (Last.text = "exception: " /\ Last.arg = <<"n", "o", " ", BS, Q, "x", BS, Q>>))
          /\ (raised = "other" => Last.text = "unknown exception")
    /\ pc = "aborted" => nread = 0
    /\ failed =>
          /\ pc \in {"getline", "dispatch", "exit"}
          /\ (pc = "exit" => (exit_code = 0 /\ (answered => cmd \in {cQuit, cExit})))

C3_Witness ==
    /\ failed /\ answered /\ raised = "none"
    /\ cmd = cGet /\ Last.status = "ok" /\ pc = "getline"

\* C4: when initialization fails, by returning false or by raising, the
\* process writes exactly one error response and no ready record, reads no
\* line, makes no further facade call and exits with code 1.
C4_InitFailureIsReported ==
    init_result \in {"false", "std", "other"} =>
        /\ pc = "exit" /\ exit_code = 1
        /\ Len(out) = 1 /\ out[1].status = "error"
        /\ nread = 0 /\ calls = <<>>

\* C5: when initialization succeeds the ready record is the first line
\* written, it is written before any line is read, and no later line has
\* status ready.
C5_ReadyOnceAndFirst ==
    /\ (init_result = "true" /\ pc # "targets") =>
          (Len(out) >= 1 /\ out[1].status = "ready")
    /\ \A i \in 2..Len(out) : out[i].status # "ready"
    /\ (pc \in {"init", "targets"} \/ out = <<>>) => nread = 0

C5_Witness ==
    /\ init_result = "true" /\ pc = "exit"
    /\ nread = 3 /\ Len(out) = 4
    /\ out[1].status = "ready" /\ Last.status = "ok"

\* C6: a cmd that is not in the enumeration, or no cmd at all, is answered
\* with the error "unknown command: <cmd>", makes no facade call and leaves
\* the loop reading.
C6_UnknownCommandIsAnswered ==
    (answered /\ cmd \notin Commands) =>
        /\ Last.status = "error"
        /\ Last.text = "unknown command: " /\ Last.arg = cmd
        /\ Last.req = nreq
        /\ calls = <<>> /\ raised = "none"
        /\ pc = "getline" /\ exit_code = -1

C6_Witness ==
    /\ answered /\ cmd = cBogus /\ nreq = 2
    /\ Last.arg = cBogus /\ pc = "getline"

\* C7: quit and exit each write one ok response and end the run; nothing is
\* read or written after the run has ended; and a run that ended on a
\* command ended on quit or exit.
C7_OnlyQuitEndsTheLoop ==
    /\ (answered /\ cmd \in {cQuit, cExit}) =>
          /\ pc = "exit" /\ exit_code = 0
          /\ Last.status = "ok" /\ Last.req = nreq
          /\ Len(out) = nreq + 1
          /\ calls = <<>>
    /\ (answered /\ pc # "getline") => (pc = "exit" /\ cmd \in {cQuit, cExit})
    /\ pc \in {"exit", "aborted"} => ~ ENABLED Next

C7_Witness ==
    /\ answered /\ cmd = cExit /\ pc = "exit"
    /\ nreq = 2 /\ nread < MaxLines

C9_GetOfAbsentOrEmptyIsError ==
    (answered /\ cmd = cGet) =>
        /\ Last.status = "ok" => Last.size > 0
        /\ Len(Stored(store, req_tag, req_blob)) = 0 =>
              /\ Last.status = "error"
              /\ (raised = "none" /\ ~ get_invalid(req_tag, req_blob))
                    => Last.text = "blob not found or empty"

C9_Witness ==
    /\ answered /\ cmd = cGet /\ raised = "none"
    /\ req_tag \in DOMAIN store /\ req_blob \in DOMAIN store[req_tag]
    /\ store[req_tag][req_blob] = <<>>
    /\ Last.text = "blob not found or empty"

\* C10: after a del_blob of a tag and blob that returned ok, with no put on
\* them since, a get of them is answered with an error, whatever the blob
\* held before.
C10_GetAfterDelBlobIsError ==
    (answered /\ cmd = cGet /\ req_pair \in DOMAIN dellog) => Last.status = "error"

C10_Witness ==
    /\ answered /\ cmd = cGet /\ raised = "none"
    /\ req_pair \in DOMAIN dellog /\ Len(dellog[req_pair]) > 0
    /\ Last.status = "error"

\* C11: the exit code tells how initialization went: it is 1 exactly when
\* WRP_CTE_CLIENT_INIT returned false or raised, and 0 whenever it succeeded,
\* however the processing of lines ended.
C11_ExitCodeReflectsInit ==
    pc \in {"exit", "aborted"} =>
        /\ (exit_code = 1) <=> (init_result \in {"false", "std", "other"})
        /\ init_result = "true" => exit_code = 0

\* C12: reading an empty line or a line starting with '#' writes no
\* response, makes no facade call, leaves the store alone and goes on to the
\* next line, so that such lines never change the number of responses.
IsBlankOrComment(ln) == ln = <<>> \/ ln[1] = "#"

C12_BlankAndCommentLinesAreSilent ==
    [][(pc = "getline" /\ nread' = nread + 1 /\ IsBlankOrComment(line')) =>
          /\ out' = out
          /\ store' = store
          /\ calls' = <<>>
          /\ nreq' = nreq
          /\ pc' = "getline"]_vars

C12_Witness ==
    /\ pc = "getline"
    /\ nread = 3
    /\ nreq = 1
    /\ line # <<>> /\ line[1] = "#"
    /\ Len(out) = 2
    /\ store # EmptyFn

\* C13: when ListTargets raises after a successful init, the ready record is
\* still the first line written, carrying targets_error in place of targets
\* and target_count, and main goes on to read lines instead of exiting.
C13_TargetsFailureIsNotFatal ==
    (init_result = "true" /\ pc # "targets") =>
        /\ Len(out) >= 1
        /\ exit_code \in {-1, 0}
        /\ exit_code = 0 => (answered \/ line = <<>>)
        /\ Len(out) = 1 =>
             /\ out[1].status = "ready"
             /\ \/ /\ out[1].fields = {"targets", "target_count"}
                   /\ out[1].size = Len(out[1].names)
                \/ /\ out[1].fields = {"targets_error"}
                   /\ out[1].arg # <<>>
                   /\ out[1].size = -1
                   /\ out[1].names = <<>>

C13_Witness ==
    /\ pc = "dispatch"
    /\ cmd = cPing
    /\ Len(out) = 1
    /\ out[1].status = "ready"
    /\ out[1].fields = {"targets_error"}
    /\ out[1].arg = <<"u","n","k","n","o","w","n">>

\* C14: ping is answered ok whatever else the line carries, without a facade
\* call and without a change to the store, and the loop goes on.
C14_PingIsAlwaysOk ==
    [][(pc = "dispatch" /\ cmd = cPing) =>
          /\ Len(out') = Len(out) + 1
          /\ out'[Len(out')].status = "ok"
          /\ out'[Len(out')].fields = {}
          /\ calls' = <<>>
          /\ raised' = "none"
          /\ store' = store
          /\ pc' = "getline"]_vars

C14_Witness ==
    /\ answered
    /\ cmd = cPing
    /\ req_tag = T1
    /\ store # EmptyFn
    /\ Last.status = "ok"
    /\ calls = <<>>

\* C18: put and get with an empty or absent tag or blob are answered with
\* "put requires tag and blob" and "get requires tag and blob", without a
\* facade call and without a change to the store, and the loop goes on.
C18_PutGetValidateTagAndBlob ==
    [][(pc = "dispatch" /\ cmd \in {cPut, cGet} /\ (req_tag = <<>> \/ req_blob = <<>>)) =>
          /\ Len(out') = Len(out) + 1
          /\ out'[Len(out')].status = "error"
          /\ out'[Len(out')].text = (IF cmd = cPut THEN "put requires tag and blob"
                                     ELSE "get requires tag and blob")
          /\ out'[Len(out')].arg = <<>>
          /\ calls' = <<>>
          /\ raised' = "none"
          /\ store' = store
          /\ pc' = "getline"]_vars

C18_Witness ==
    /\ answered
    /\ cmd = cPut
    /\ req_tag = <<>>
    /\ req_blob = B1
    /\ Last.status = "error"
    /\ Last.text = "put requires tag and blob"
    /\ store # EmptyFn

\* C19: put never rejects its data.  With tag and blob given and no facade
\* failure it answers ok with size floor(len(data) / 2) and stores that many
\* bytes: a trailing odd character is dropped and a character that is not a
\* hex digit counts as the nibble 0.
DigitValue(c) ==
    CASE c = "0" -> 0 [] c = "1" -> 1 [] c = "2" -> 2 [] c = "3" -> 3
      [] c = "4" -> 4 [] c = "5" -> 5 [] c = "6" -> 6 [] c = "7" -> 7
      [] c = "8" -> 8 [] c = "9" -> 9
      [] c \in {"a", "A"} -> 10 [] c \in {"b", "B"} -> 11
      [] c \in {"c", "C"} -> 12 [] c \in {"d", "D"} -> 13
      [] c \in {"e", "E"} -> 14 [] c \in {"f", "F"} -> 15
      [] OTHER -> 0

RECURSIVE LenientBytes(_)
LenientBytes(d) ==
    IF Len(d) < 2 THEN <<>>
    ELSE <<16 * DigitValue(d[1]) + DigitValue(d[2])>> \o LenientBytes(Tail(Tail(d)))

C19_PutNeverRejectsData ==
    (answered /\ cmd = cPut /\ req_tag # <<>> /\ req_blob # <<>> /\ raised = "none") =>
        /\ Last.status = "ok"
        /\ Last.fields = {"size"}
        /\ Last.size = Len(json_get(line, kData)) \div 2
        /\ Stored(store, req_tag, req_blob) = LenientBytes(json_get(line, kData))

C19_Witness ==
    /\ answered
    /\ cmd = cPut
    /\ raised = "none"
    /\ json_get(line, kData) = <<"g","1","f","F">>
    /\ Last.size = 2
    /\ Stored(store, T2, B1) = <<1, 255>>
    /\ Stored(store, T1, B1) = <<15>>

\* C20: only put, del_blob and del_tag change stored bytes.  Every other
\* step (get, get_size, list_blobs, tag_query, ping, quit, exit, an unknown
\* command, reading or skipping a line) keeps each blob with its bytes and
\* creates no blob.
Blobs(st) == UNION { { <<t, b>> : b \in DOMAIN st[t] } : t \in DOMAIN st }

C20_OnlyPutAndDeleteChangeBlobs ==
    [][(pc # "dispatch" \/ cmd \notin {cPut, cDelBlob, cDelTag}) =>
          /\ Blobs(store') = Blobs(store)
          /\ \A p \in Blobs(store) : store'[p[1]][p[2]] = store[p[1]][p[2]]]_vars

C20_Witness ==
    /\ answered
    /\ cmd = cGet
    /\ Last.status = "ok"
    /\ Last.data = <<"0","f">>
    /\ Stored(store, T1, B1) = <<15>>
    /\ Stored(store, T2, B1) = <<1, 255>>

\* C16: hex round trip.  For every byte sequence b, to_hex(b) has length
\* 2 * len(b) and only the characters 0-9 and a-f, and from_hex(to_hex(b))
\* is b.
LowerHexChars ==
    {"0", "1", "2", "3", "4", "5", "6", "7", "8", "9", "a", "b", "c", "d", "e", "f"}

C16_HexRoundTrip ==
    /\ fn \in {"to_hex", "from_hex"} =>
         /\ Len(enc) = 2 * Len(sample)
         /\ \A i \in 1..Len(enc) : enc[i] \in LowerHexChars
    /\ fn = "from_hex" => dec = sample

C16_Witness ==
    /\ fn = "from_hex"
    /\ sample = <<171, 10>>
    /\ enc = <<"a", "b", "0", "a">>
    /\ dec = <<171, 10>>

\* C17: json_get unescapes a quoted value: for a line whose tag value holds
\* escaped double quotes or backslashes, it returns the whole value up to
\* the closing quote with each escape replaced by the character it denotes.
C17_JsonGetUnescapes ==
    fn = "json_get" => dec = sample

\* C15: the end of the input stream ends the run without a further
\* response: main then has written one response for each line read that was
\* not skipped, and every run ends once its input is exhausted.
Terminated == pc \in {"exit", "aborted"}

C15_EndOfInputTerminates ==
    /\ [][(pc = "getline" /\ nread' = nread /\ pc' # "getline") =>
            (pc' = "exit" /\ exit_code' = 0 /\ out' = out)]_vars
    /\ []((pc = "exit" /\ init_result = "true" /\ ~answered) => Len(out) = nreq + 1)
    /\ <>Terminated

C15_Witness ==
    /\ pc = "exit"
    /\ init_result = "true"
    /\ ~answered
    /\ nread = 3
    /\ nreq = 2
    /\ Len(out) = 3
    /\ Last.status = "error"

====
